---- MODULE Spec2Model ----
(***************************************************************************)
(* TeleSticker (src/app.py): the sticker conversion pipeline.              *)
(*                                                                         *)
(*   resize_image      one image -> PNG/WEBP, longest edge 512 or 100x100  *)
(*   convert_video     one video -> WEBM, ffprobe, then up to 5 ffmpeg     *)
(*                     encodes at falling bitrates until the size fits     *)
(*   clean_temp_files  empties the output directory                        *)
(*   processing_thread one batch: clean, images, videos, the two icons     *)
(*   process_files     the "Process Files" button: starts a batch thread   *)
(*                                                                         *)
(* Python computes the scale ratio and the bitrate reduction in IEEE-754   *)
(* binary64; the Float* operators below compute exactly what the hardware  *)
(* computes (round to nearest, ties to even) on bit sequences, so that     *)
(* int(width * ratio) is the number Python gets, not the rational one.     *)
(***************************************************************************)
EXTENDS Integers, Sequences, FiniteSets, TLC

\* ------------------------------------------------------------- constants
MAX_IMAGE_SIZE == 512
MAX_VIDEO_SIZE_KB == 256
ICON_SIZE == 100
MAX_ICON_SIZE_KB == 32
\* for attempt in range(5)
MAX_ATTEMPTS == 5
\* bitrate = 150 if is_icon else 300
ICON_BITRATE == 150
REGULAR_BITRATE == 300
\* width, height = 1280, 720
DEFAULT_WIDTH == 1280
DEFAULT_HEIGHT == 720
\* a binary64 significand has 53 bits
MANT_BITS == 53

Max(a, b) == IF a >= b THEN a ELSE b

\* ------------------------------------------------------- binary64 model
\* A positive double is [bits, exp]: bits is its 53-bit significand, most
\* significant bit first (bits[1] = 1), and its value is int(bits) * 2^exp.
\* Zero is [bits |-> <<>>, exp |-> 0].  Intermediate integers stay below
\* 2^31: the long division keeps only remainders, the product works on
\* 14-bit limbs.
LIMB_BITS == 14
LIMB_BASE == 16384

RECURSIVE Pow2(_)
Pow2(n) == IF n = 0 THEN 1 ELSE 2 * Pow2(n - 1)

RECURSIVE BitsToInt(_)
BitsToInt(bits) ==
    IF Len(bits) = 0 THEN 0
    ELSE 2 * BitsToInt(SubSeq(bits, 1, Len(bits) - 1)) + bits[Len(bits)]

RECURSIVE IntToBits(_)
IntToBits(n) == IF n = 0 THEN <<>> ELSE Append(IntToBits(n \div 2), n % 2)

\* 2^i mod m, by squaring.
RECURSIVE PowMod2(_, _)
PowMod2(i, m) ==
    IF i = 0 THEN 1 % m
    ELSE LET h == PowMod2(i \div 2, m)
         IN  (((h * h) % m) * (IF i % 2 = 1 THEN 2 ELSE 1)) % m

\* bits + 1 on a sequence that is not all ones: the last 0 becomes 1 and the
\* ones after it become 0.
IncBits(bits) ==
    LET n    == Len(bits)
        last == CHOOSE k \in 1..n : bits[k] = 0 /\ \A j \in (k + 1)..n : bits[j] = 1
    IN  [i \in 1..n |-> IF i < last THEN bits[i] ELSE IF i = last THEN 1 ELSE 0]

\* Round a 53-bit significand up by one unit in the last place when up is
\* true; a carry out of the top bit renormalises to 1.000... and exp + 1.
RoundUp(bits, exp, up) ==
    IF ~up THEN [bits |-> bits, exp |-> exp]
    ELSE IF \A i \in 1..MANT_BITS : bits[i] = 1
         THEN [bits |-> [i \in 1..MANT_BITS |-> IF i = 1 THEN 1 ELSE 0], exp |-> exp + 1]
         ELSE [bits |-> IncBits(bits), exp |-> exp]

\* The largest b >= 0 with d * 2^b <= n (for n >= d > 0).
RECURSIVE Log2Quot(_, _)
Log2Quot(n, d) == IF 2 * d <= n THEN 1 + Log2Quot(n, 2 * d) ELSE 0

\* The smallest k >= 0 with n * 2^k >= d (for n, d > 0).
RECURSIVE ShiftToReach(_, _)
ShiftToReach(n, d) == IF n >= d THEN 0 ELSE 1 + ShiftToReach(2 * n, d)

\* Binary long division of num / den, 1 <= num / den < 2: the remainder
\* after i quotient bits behind the leading 1 is (num - den) * 2^i mod den.
DivRem(num, den, i) == ((num - den) * PowMod2(i, den)) % den

\* Quotient bit i (bit 1 is the leading 1): set when doubling the previous
\* remainder reaches the divisor.
DivBit(num, den, i) ==
    IF i = 1 THEN 1
    ELSE IF 2 * DivRem(num, den, i - 2) >= den THEN 1 ELSE 0

\* n / d in binary64 for integers 0 < n, d < 2^15: the correctly rounded
\* quotient.
FloatDiv(n, d) ==
    LET up   == ShiftToReach(n, d)
        num  == n * Pow2(up)
        b    == IF up > 0 THEN 0 ELSE Log2Quot(n, d)
        den  == d * Pow2(b)
        bits == [i \in 1..MANT_BITS |-> DivBit(num, den, i)]
        rem  == DivRem(num, den, MANT_BITS - 1)
        rnd  == 2 * rem > den \/ (2 * rem = den /\ bits[MANT_BITS] = 1)
    IN  RoundUp(bits, b - up - (MANT_BITS - 1), rnd)

\* Limb k (k = 1 the least significant) of a 53-bit significand.
Limb(bits, k) ==
    LET hi == MANT_BITS - LIMB_BITS * k + 1
        lo == MANT_BITS - LIMB_BITS * (k - 1)
    IN  BitsToInt(SubSeq(bits, Max(hi, 1), lo))

\* The carry out of limb k when the significand is multiplied by w.
RECURSIVE MulCarry(_, _, _)
MulCarry(bits, w, k) ==
    IF k = 0 THEN 0
    ELSE (Limb(bits, k) * w + MulCarry(bits, w, k - 1)) \div LIMB_BASE

\* Limb k of the product.
MulLimb(bits, w, k) == (Limb(bits, k) * w + MulCarry(bits, w, k - 1)) % LIMB_BASE

\* The n low bits of v, most significant first.
LowBits(v, n) == [i \in 1..n |-> (v \div Pow2(n - i)) % 2]

\* int(bits) * w as a bit sequence without leading zeros (0 < w < 2^15):
\* the top limb (the 11 leading bits) takes the last carry whole.
MulBits(bits, w) ==
    IntToBits(Limb(bits, 4) * w + MulCarry(bits, w, 3))
        \o LowBits(MulLimb(bits, w, 3), LIMB_BITS)
        \o LowBits(MulLimb(bits, w, 2), LIMB_BITS)
        \o LowBits(MulLimb(bits, w, 1), LIMB_BITS)

\* w * x in binary64 for an integer 0 <= w < 2^15 (exact as a double) and a
\* double x: the exact product rounded to 53 bits, ties to even.
FloatMul(w, x) ==
    IF w = 0 \/ Len(x.bits) = 0 THEN [bits |-> <<>>, exp |-> 0]
    ELSE LET p      == MulBits(x.bits, w)
             extra  == Len(p) - MANT_BITS
             keep   == SubSeq(p, 1, MANT_BITS)
             guard  == extra > 0 /\ p[MANT_BITS + 1] = 1
             sticky == \E j \in (MANT_BITS + 2)..Len(p) : p[j] = 1
             up     == guard /\ (sticky \/ keep[MANT_BITS] = 1)
         IN  RoundUp(keep, x.exp + extra, up)

\* int(x) for a double 0 <= x < 2^31: truncation toward zero.
FloatTrunc(x) ==
    IF Len(x.bits) = 0 THEN 0
    ELSE IF x.exp >= 0 THEN BitsToInt(x.bits) * Pow2(x.exp)
    ELSE IF MANT_BITS + x.exp <= 0 THEN 0
    ELSE BitsToInt(SubSeq(x.bits, 1, MANT_BITS + x.exp))

\* ---------------------------------------------------- dimension planning
\* Edge lengths a source may have; 49 and 107 are lengths on which
\* 512 / edge * edge is not 512 in binary64.
MaxSmallEdge == 4
Edges == (1..MaxSmallEdge) \cup {49, 107, 480, 500, 640, 720, 1000, 1280}

\* ratio = MAX_IMAGE_SIZE / max(width, height); int(edge * ratio), for every
\* edge and longest edge a source may have: <<edge, longest, result>>.
ScaledEdges ==
    { <<edge, longest, FloatTrunc(FloatMul(edge, FloatDiv(MAX_IMAGE_SIZE, longest)))>> :
        edge \in Edges, longest \in Edges }

\* int(width * ratio), int(height * ratio)
ScaledEdge(edge, width, height) ==
    (CHOOSE t \in ScaledEdges : t[1] = edge /\ t[2] = Max(width, height))[3]

\* A planner without the even rounding, to set against EvenUp.
EvenUpSkipped(n) == n

\* new_width if new_width % 2 == 0 else new_width + 1
EvenUp(n) == IF n % 2 = 0 THEN n ELSE n + 1

\* int(bitrate * 0.6) for every bitrate a call can reach; the literal 0.6
\* is the double nearest 6/10: <<bitrate, result>>.
ReducedBitrates ==
    { <<bitrate, FloatTrunc(FloatMul(bitrate, FloatDiv(6, 10)))>> :
        bitrate \in 0..Max(ICON_BITRATE, REGULAR_BITRATE) }

\* A cut that rounds to the nearest integer where int() truncates, to set
\* against ReduceBitrate.
ReduceBitrateRounded(bitrate) == (6 * bitrate + 5) \div 10

\* bitrate = int(bitrate * 0.6)
ReduceBitrate(bitrate) == (CHOOSE t \in ReducedBitrates : t[1] = bitrate)[2]

\* max_size_kb = MAX_ICON_SIZE_KB if is_icon else MAX_VIDEO_SIZE_KB
MaxSizeKb(is_icon) == IF is_icon THEN MAX_ICON_SIZE_KB ELSE MAX_VIDEO_SIZE_KB

\* file_size_kb <= max_size_kb, with file_size_kb = getsize / 1024 (a division
\* by a power of two, exact in binary64): the comparison in bytes.
FitsBudget(size, is_icon) == size <= MaxSizeKb(is_icon) * 1024

\* ------------------------------------------------------------- the inputs
\* One field of ffprobe's "csv=p=0" line after split(","): text int()
\* accepts (its value), or text on which int() raises ValueError.
Num(n) == [num |-> TRUE, val |-> n]
NaN == [num |-> FALSE, val |-> 0]

\* A video file: whether ffprobe can be started on it at all (subprocess.run
\* raises OSError otherwise), the fields of the line it prints (an empty
\* output splits into one empty field, on which int() raises), the sizes in
\* bytes ffmpeg's output may have when it exits 0 on this clip, and the ways
\* ffmpeg may exit non-zero on it: leaving no output file, or a partial one.
Video(id, ran, out, sizes, errors) ==
    [id |-> id, ran |-> ran, out |-> out, sizes |-> sizes, errors |-> errors]

\* An image file: whether PIL opens, resizes and saves it, and img.size.
Image(id, ok, width, height) == [id |-> id, ok |-> ok, width |-> width, height |-> height]

NoFile == [id |-> "none"]

\* What ffprobe can print for a file that is not a video, or is cut short.
BadOutputs ==
    { <<NaN>>, <<Num(640)>>, <<NaN, Num(480)>>, <<Num(640), NaN>>, <<NaN, NaN, Num(3)>> }

\* Sizes in bytes the encoder's output may have: each budget, and one byte
\* over each.
Sizes == { 32768, 32769, 262144, 262145 }

\* The calls the single-call specification makes: every probe outcome and
\* every pair of source edges.
UnitVideo(ran, out) == Video("v", ran, out, Sizes, {"nofile", "partial"})

UnitVideos ==
    { UnitVideo(FALSE, <<NaN>>) }
    \cup { UnitVideo(TRUE, o) : o \in BadOutputs }
    \cup { UnitVideo(TRUE, <<Num(0), Num(0)>>), UnitVideo(TRUE, <<Num(640), Num(480), NaN>>) }
    \cup { UnitVideo(TRUE, <<Num(a), Num(b)>>) : a \in Edges, b \in Edges }

UnitImages ==
    { Image("i", FALSE, 1, 1) } \cup { Image("i", TRUE, a, b) : a \in Edges, b \in Edges }

\* ---------------------------------------------------------------- state
\* Worker threads process_files can start (threading.Thread per click).
Workers == {"w1", "w2"}

VARIABLES
    image_files,        \* self.image_files
    video_files,        \* self.video_files
    icon_video_file,    \* self.icon_video_file (NoFile: None)
    icon_image_file,    \* self.icon_image_file (NoFile: None)
    create_video_icon,  \* self.create_video_icon
    create_image_icon,  \* self.create_image_icon
    output_format,      \* self.output_format: "webp" or "png"
    presses,            \* how often the user will still press "Process Files"
    dir,                \* OUTPUT_DIR: file name -> <<writer, call number>>
    now,                \* int(time.time())
    pc,                 \* per worker: where processing_thread stands
    idx,                \* per worker: the loop index i
    processed_files,    \* per worker: the local list processed_files
    calls,              \* per worker: the calls made so far, in order
    outcomes,           \* per worker: how each finished call ended
    frame               \* per worker: the running resize_image / convert_video call

app == <<image_files, video_files, icon_video_file, icon_image_file,
         create_video_icon, create_image_icon, output_format>>
vars == <<image_files, video_files, icon_video_file, icon_image_file,
          create_video_icon, create_image_icon, output_format, presses,
          dir, now, pc, idx, processed_files, calls, outcomes, frame>>

\* A file name in OUTPUT_DIR: f"{prefix}_{index}_{timestamp}.{ext}".
Path(prefix, index, ts, ext) == <<prefix, index, ts, ext>>

\* if not output_path.endswith('.webm'): output_path = ....rsplit('.', 1)[0] + '.webm'
WebmPath(path) == [path EXCEPT ![4] = "webm"]

\* The locals of one call.  cv is the place in the callee: "resize",
\* "probe", "plan", "encode" (line 127), "size" (line 130), "ret" (line 140),
\* "returned"; "none": no call.  attempt: the encodes run so far.  exc: the
\* call ended in its except branch.  cmds: the ffmpeg command lines run so
\* far (bitrate and scale filter).  returncode: the exit status of the last
\* ffmpeg run (-1: none yet).  vanished: the call found its output file gone.
NoFrame ==
    [cv |-> "none", fn |-> "none", input |-> NoFile, output_path |-> Path("none", 0, 0, "none"),
     is_icon |-> FALSE, fmt |-> "none", width |-> 0, height |-> 0,
     new_width |-> 0, new_height |-> 0, bitrate |-> 0, attempt |-> 0,
     file_size |-> 0, success |-> FALSE, exc |-> FALSE, cmds |-> <<>>,
     returncode |-> -1, vanished |-> FALSE, ret |-> FALSE]

CallRecord(f) == [fn |-> f.fn, input |-> f.input, is_icon |-> f.is_icon, path |-> f.output_path]

CallFrame(fn, input, path, fmt, is_icon) ==
    [NoFrame EXCEPT !.cv = IF fn = "resize_image" THEN "resize" ELSE "probe",
                    !.fn = fn, !.input = input, !.output_path = path,
                    !.fmt = fmt, !.is_icon = is_icon]

\* The file at path written (created or overwritten) by worker w's current call.
Written(d, path, w) ==
    [n \in (DOMAIN d) \cup {path} |-> IF n = path THEN <<w, Len(calls[w])>> ELSE d[n]]

\* --------------------------------------------------------- resize_image
\* int(width * ratio), int(height * ratio), or the icon's fixed square.
NewSize(f) ==
    IF f.is_icon THEN <<ICON_SIZE, ICON_SIZE>>
    ELSE <<ScaledEdge(f.input.width, f.input.width, f.input.height),
           ScaledEdge(f.input.height, f.input.width, f.input.height)>>

\* Lines 33-61, one step.  PIL raises on a file it cannot read, and the
\* function returns False without an output file; whether it raises on a
\* target with an edge of 0 is PIL's decision, and both outcomes are taken.
\* Else the image is resized and saved and the function returns True.
resize_image(w) ==
    LET f == frame[w] IN
    /\ f.cv = "resize"
    /\ \/ /\ ~f.input.ok \/ NewSize(f)[1] < 1 \/ NewSize(f)[2] < 1
          /\ frame' = [frame EXCEPT ![w] = [f EXCEPT !.cv = "returned", !.exc = TRUE, !.ret = FALSE]]
          /\ dir' = dir
       \/ /\ f.input.ok
          /\ frame' = [frame EXCEPT ![w] =
                [f EXCEPT !.cv = "returned", !.width = f.input.width,
                          !.height = f.input.height, !.new_width = NewSize(f)[1],
                          !.new_height = NewSize(f)[2], !.ret = TRUE]]
          /\ dir' = Written(dir, f.output_path, w)
    /\ UNCHANGED <<app, presses, now, pc, idx, processed_files, calls, outcomes>>

\* -------------------------------------------------------- convert_video
\* dimensions = result.stdout.strip().split(","); int(dimensions[0]);
\* int(dimensions[1]) raise IndexError or ValueError unless both are there
\* and numeric.
ParsesOk(out) == Len(out) >= 2 /\ out[1].num /\ out[2].num

\* Lines 65-87: the output path, ffprobe, the parse with its fallback.
\* subprocess.run stands outside the inner try: when ffprobe cannot be
\* started the OSError reaches the outer except and the call returns False.
Probe(w) ==
    LET f == frame[w] IN
    /\ f.cv = "probe"
    /\ frame' = [frame EXCEPT ![w] =
            IF ~f.input.ran
            THEN [f EXCEPT !.cv = "returned", !.output_path = WebmPath(f.output_path),
                           !.exc = TRUE, !.ret = FALSE]
            ELSE IF ParsesOk(f.input.out)
            THEN [f EXCEPT !.cv = "plan", !.output_path = WebmPath(f.output_path),
                           !.width = f.input.out[1].val, !.height = f.input.out[2].val]
            ELSE [f EXCEPT !.cv = "plan", !.output_path = WebmPath(f.output_path),
                           !.width = DEFAULT_WIDTH, !.height = DEFAULT_HEIGHT]]
    /\ UNCHANGED <<app, presses, dir, now, pc, idx, processed_files, calls, outcomes>>

\* bitrate = 150 if is_icon else 300
InitialBitrate(is_icon) == IF is_icon THEN ICON_BITRATE ELSE REGULAR_BITRATE

\* Lines 89-105: the target dimensions and the first bitrate.  A source of
\* 0x0 divides by zero: the outer except returns False.
Plan(w) ==
    LET f == frame[w] IN
    /\ f.cv = "plan"
    /\ frame' = [frame EXCEPT ![w] =
            IF f.is_icon
            THEN [f EXCEPT !.cv = "encode", !.new_width = ICON_SIZE, !.new_height = ICON_SIZE,
                           !.bitrate = InitialBitrate(TRUE)]
            ELSE IF Max(f.width, f.height) = 0
            THEN [f EXCEPT !.cv = "returned", !.exc = TRUE, !.ret = FALSE]
            ELSE [f EXCEPT !.cv = "encode",
                           !.new_width = EvenUp(ScaledEdge(f.width, f.width, f.height)),
                           !.new_height = EvenUp(ScaledEdge(f.height, f.width, f.height)),
                           !.bitrate = InitialBitrate(FALSE)]]
    /\ UNCHANGED <<app, presses, dir, now, pc, idx, processed_files, calls, outcomes>>

\* The ffmpeg command line of one attempt: -b:v and the scale filter.
Cmd(f) == [bitrate |-> f.bitrate, scale_w |-> f.new_width, scale_h |-> f.new_height]

\* A loop that gives up one attempt early, to set against LoopDone.
LoopDoneEarly(attempt) == attempt >= MAX_ATTEMPTS - 1

\* The loop's exit test after one more attempt: range(5) is used up.
LoopDone(attempt) == attempt >= MAX_ATTEMPTS

\* The attempt counted and its command line recorded.
Ran(f) == [f EXCEPT !.attempt = f.attempt + 1, !.cmds = Append(f.cmds, Cmd(f))]

\* Lines 130-138 for an output of the given size: the size test, break on a
\* fit, else the bitrate cut and the next attempt.
AfterEncode(f, size) ==
    IF FitsBudget(size, f.is_icon)
    THEN [f EXCEPT !.file_size = size, !.success = TRUE, !.cv = "ret"]
    ELSE [f EXCEPT !.file_size = size, !.bitrate = ReduceBitrate(f.bitrate),
                   !.cv = IF LoopDone(f.attempt) THEN "ret" ELSE "encode"]

\* An encoder error treated like an oversized output (cut the bitrate, try
\* again), to set against AfterEncodeError.
AfterEncodeErrorRetry(f) ==
    [Ran(f) EXCEPT !.returncode = 1, !.bitrate = ReduceBitrate(f.bitrate),
                   !.cv = IF LoopDone(f.attempt + 1) THEN "ret" ELSE "encode"]

\* One encode that exits non-zero: check=True raises CalledProcessError, the
\* outer except returns False (line 144).
AfterEncodeError(f) ==
    [Ran(f) EXCEPT !.returncode = 1, !.exc = TRUE, !.ret = FALSE, !.cv = "returned"]

\* Lines 109-127, one run of ffmpeg.  ffmpeg -y overwrites the output; a
\* failing ffmpeg may or may not leave a file behind.
Encode(w) ==
    LET f == frame[w] IN
    /\ f.cv = "encode"
    /\ \/ /\ f.input.sizes # {}
          /\ frame' = [frame EXCEPT ![w] = [Ran(f) EXCEPT !.returncode = 0, !.cv = "size"]]
          /\ dir' = Written(dir, f.output_path, w)
       \/ \E error \in f.input.errors :
            /\ frame' = [frame EXCEPT ![w] = AfterEncodeError(f)]
            /\ dir' = IF error = "partial" THEN Written(dir, f.output_path, w) ELSE dir
    /\ UNCHANGED <<app, presses, now, pc, idx, processed_files, calls, outcomes>>

\* Lines 130-138: os.path.getsize raises when the file is gone (the outer
\* except returns False), else the size test on the file found there.
Measure(w) ==
    LET f == frame[w] IN
    /\ f.cv = "size"
    /\ IF f.output_path \notin DOMAIN dir
       THEN frame' = [frame EXCEPT ![w] =
                [f EXCEPT !.exc = TRUE, !.vanished = TRUE, !.ret = FALSE, !.cv = "returned"]]
       ELSE \E size \in f.input.sizes :
                frame' = [frame EXCEPT ![w] = AfterEncode(f, size)]
    /\ UNCHANGED <<app, presses, dir, now, pc, idx, processed_files, calls, outcomes>>

\* return os.path.exists(output_path) and file_size_kb <= max_size_kb
ReturnValue(f, d) == f.output_path \in DOMAIN d /\ FitsBudget(f.file_size, f.is_icon)

\* Line 140.
Return(w) ==
    LET f == frame[w] IN
    /\ f.cv = "ret"
    /\ frame' = [frame EXCEPT ![w] =
            [f EXCEPT !.cv = "returned", !.ret = ReturnValue(f, dir),
                      !.vanished = f.output_path \notin DOMAIN dir]]
    /\ UNCHANGED <<app, presses, dir, now, pc, idx, processed_files, calls, outcomes>>

\* ------------------------------------------- one call, made on its own
\* resize_image or convert_video called once on any input, icon or not.
InitCall ==
    /\ image_files = <<>> /\ video_files = <<>>
    /\ icon_video_file = NoFile /\ icon_image_file = NoFile
    /\ create_video_icon = FALSE /\ create_image_icon = FALSE
    /\ output_format \in {"webp", "png"}
    /\ presses = 0
    /\ dir = << >>
    /\ now = 0
    /\ pc = [w \in Workers |-> IF w = "w1" THEN "call" ELSE "idle"]
    /\ idx = [w \in Workers |-> 0]
    /\ processed_files = [w \in Workers |-> <<>>]
    /\ outcomes = [w \in Workers |-> <<>>]
    /\ \E is_icon \in BOOLEAN :
         \/ \E v \in UnitVideos :
              /\ frame = [w \in Workers |-> IF w = "w1"
                            THEN CallFrame("convert_video", v, Path("out", 1, 0, "webm"), "webm", is_icon)
                            ELSE NoFrame]
         \/ \E i \in UnitImages :
              /\ frame = [w \in Workers |-> IF w = "w1"
                            THEN CallFrame("resize_image", i, Path("out", 1, 0, output_format), output_format, is_icon)
                            ELSE NoFrame]
    /\ calls = [w \in Workers |-> IF w = "w1" THEN <<CallRecord(frame[w])>> ELSE <<>>]

CallStep(w) ==
    \/ resize_image(w)
    \/ Probe(w)
    \/ Plan(w)
    \/ Encode(w)
    \/ Measure(w)
    \/ Return(w)

NextCall == \E w \in Workers : CallStep(w)

SpecCall == InitCall /\ [][NextCall]_vars

\* ------------------------------------------------------ the batch thread
HasVideoIcon == create_video_icon /\ icon_video_file.id # "none"
HasImageIcon == create_image_icon /\ icon_image_file.id # "none"

\* Where processing_thread goes next: the loops over image_files and
\* video_files, then the two icon blocks, each skipped when it has no work.
FromImageIcon == IF HasImageIcon THEN <<"image_icon", 0>> ELSE <<"summary", 0>>
FromVideoIcon == IF HasVideoIcon THEN <<"video_icon", 0>> ELSE FromImageIcon
FromVideos(i) == IF i < Len(video_files) THEN <<"videos", i>> ELSE FromVideoIcon
FromImages(i) == IF i < Len(image_files) THEN <<"images", i>> ELSE FromVideos(0)

After(phase, i) ==
    CASE phase = "images" -> FromImages(i + 1)
      [] phase = "videos" -> FromVideos(i + 1)
      [] phase = "video_icon" -> FromImageIcon
      [] phase = "image_icon" -> <<"summary", 0>>

Phases == {"images", "videos", "video_icon", "image_icon"}

\* The threads started so far, and the one the next click starts.
Started == {w \in Workers : pc[w] # "idle"}
NextThread == IF "w1" \notin Started THEN "w1" ELSE "w2"

\* process_files (lines 460-471): the "No Files" warning, else a new daemon
\* thread running processing_thread.  Nothing looks at a running batch.
process_files ==
    /\ presses > 0
    /\ Started # Workers
    /\ Len(image_files) > 0 \/ Len(video_files) > 0 \/ HasVideoIcon \/ HasImageIcon
    /\ presses' = presses - 1
    /\ pc' = [pc EXCEPT ![NextThread] = "clean"]
    /\ UNCHANGED <<app, dir, now, idx, processed_files, calls, outcomes, frame>>

\* os.remove raises on a file held open or protected: the loop prints the
\* error and goes on, and the file stays.
Removable(tag) == tag[1] # "locked"

\* clean_temp_files (lines 23-31) and lines 349-353.
clean_temp_files(w) ==
    /\ pc[w] = "clean"
    /\ dir' = [n \in {m \in DOMAIN dir : ~Removable(dir[m])} |-> dir[n]]
    /\ processed_files' = [processed_files EXCEPT ![w] = <<>>]
    /\ pc' = [pc EXCEPT ![w] = FromImages(0)[1]]
    /\ idx' = [idx EXCEPT ![w] = FromImages(0)[2]]
    /\ UNCHANGED <<app, presses, now, calls, outcomes, frame>>

\* The call the batch makes at a phase and index (lines 358-364, 380-387,
\* 405-412, 429-437).
BatchFrame(phase, i) ==
    CASE phase = "images" ->
            CallFrame("resize_image", image_files[i + 1],
                      Path("sticker", i + 1, now, output_format), output_format, FALSE)
      [] phase = "videos" ->
            CallFrame("convert_video", video_files[i + 1],
                      Path("sticker", i + 1, now, "webm"), "webm", FALSE)
      [] phase = "video_icon" ->
            CallFrame("convert_video", icon_video_file,
                      Path("icon_video", 0, now, "webm"), "webm", TRUE)
      [] phase = "image_icon" ->
            CallFrame("resize_image", icon_image_file,
                      Path("icon_static", 0, now, output_format), output_format, TRUE)

BatchCall(w) ==
    /\ pc[w] \in Phases
    /\ frame[w].cv = "none"
    /\ frame' = [frame EXCEPT ![w] = BatchFrame(pc[w], idx[w])]
    /\ calls' = [calls EXCEPT ![w] = Append(@, CallRecord(BatchFrame(pc[w], idx[w])))]
    /\ UNCHANGED <<app, presses, dir, now, pc, idx, processed_files, outcomes>>

\* How a finished call ended: "ok", "exhausted" (all attempts ran and the
\* last output was still too large), "failed" (anything else).
Outcome(f) ==
    IF f.ret THEN "ok"
    ELSE IF f.fn = "convert_video" /\ ~f.exc /\ ~f.success THEN "exhausted"
    ELSE "failed"

\* A batch that lists every output whatever the call returned, to set
\* against Collected.
CollectedAlways(files, f) == Append(files, f.output_path)

\* if success: processed_files.append(output_path) (lines 366-370, 389-393,
\* 414-419, 439-444), and on to the next asset.
Collected(files, f) == IF f.ret THEN Append(files, f.output_path) ELSE files

\* A batch that ends at the first asset that fails, to set against
\* BatchReturn.
BatchReturnAbort(w) ==
    /\ pc[w] \in Phases
    /\ frame[w].cv = "returned"
    /\ processed_files' = [processed_files EXCEPT ![w] = Collected(@, frame[w])]
    /\ outcomes' = [outcomes EXCEPT ![w] = Append(@, Outcome(frame[w]))]
    /\ pc' = [pc EXCEPT ![w] = IF frame[w].ret THEN After(pc[w], idx[w])[1] ELSE "summary"]
    /\ idx' = [idx EXCEPT ![w] = IF frame[w].ret THEN After(pc[w], idx[w])[2] ELSE 0]
    /\ frame' = [frame EXCEPT ![w] = NoFrame]
    /\ UNCHANGED <<app, presses, dir, now, calls>>

BatchReturn(w) ==
    /\ pc[w] \in Phases
    /\ frame[w].cv = "returned"
    /\ processed_files' = [processed_files EXCEPT ![w] = Collected(@, frame[w])]
    /\ outcomes' = [outcomes EXCEPT ![w] = Append(@, Outcome(frame[w]))]
    /\ pc' = [pc EXCEPT ![w] = After(pc[w], idx[w])[1]]
    /\ idx' = [idx EXCEPT ![w] = After(pc[w], idx[w])[2]]
    /\ frame' = [frame EXCEPT ![w] = NoFrame]
    /\ UNCHANGED <<app, presses, dir, now, calls>>

\* Lines 448-458: the closing status lines; the thread ends.
Summary(w) ==
    /\ pc[w] = "summary"
    /\ pc' = [pc EXCEPT ![w] = "done"]
    /\ UNCHANGED <<app, presses, dir, now, idx, processed_files, calls, outcomes, frame>>

\* The wall clock moves to the next second.
MaxTime == 1
Tick ==
    /\ now < MaxTime
    /\ now' = now + 1
    /\ UNCHANGED <<app, presses, dir, pc, idx, processed_files, calls, outcomes, frame>>

\* The files the user selected before pressing the button.
MaxImages == 2
MaxVideos == 1
BatchImage(k) == Image(k, k % 2 = 1, 1000, 500)
\* Odd clips: ffprobe prints nothing usable and every encode comes out at the
\* regular budget or one byte over it.  Even clips: ffmpeg rejects them.
BatchVideo(k) ==
    IF k % 2 = 1 THEN Video(k, TRUE, <<NaN>>, {262144, 262145}, {})
    ELSE Video(k, TRUE, <<Num(640), Num(480)>>, {}, {"nofile", "partial"})
IconVideo == Video("icon", TRUE, <<Num(640), Num(480)>>, {32768, 32769}, {})
IconImage == Image("icon", TRUE, 640, 480)

\* Files found in OUTPUT_DIR when the program starts.
StaleDirs ==
    { << >>,
      [n \in {Path("old", 1, 0, "webm"), Path("old", 2, 0, "txt")} |->
            IF n[2] = 1 THEN <<"user", 0>> ELSE <<"locked", 0>>] }

\* No batch thread started yet.
Idle ==
    /\ now = 0
    /\ pc = [w \in Workers |-> "idle"]
    /\ idx = [w \in Workers |-> 0]
    /\ processed_files = [w \in Workers |-> <<>>]
    /\ calls = [w \in Workers |-> <<>>]
    /\ outcomes = [w \in Workers |-> <<>>]
    /\ frame = [w \in Workers |-> NoFrame]

\* One press of the button, on any selection of files.
InitBatch ==
    /\ image_files \in {[k \in 1..n |-> BatchImage(k)] : n \in 0..MaxImages}
    /\ video_files \in {[k \in 1..n |-> BatchVideo(k)] : n \in 0..MaxVideos}
    /\ icon_video_file \in {NoFile, IconVideo}
    /\ create_video_icon \in BOOLEAN
    /\ icon_image_file \in {NoFile, IconImage}
    /\ create_image_icon \in BOOLEAN
    /\ output_format \in {"webp", "png"}
    /\ presses = 1
    /\ dir \in StaleDirs
    /\ Idle

\* The button pressed again while a batch may still run: one image, one
\* clip, a used output directory.
InitClicks ==
    /\ image_files = <<BatchImage(1)>>
    /\ video_files = <<BatchVideo(1)>>
    /\ icon_video_file = NoFile /\ create_video_icon = FALSE
    /\ icon_image_file = NoFile /\ create_image_icon = FALSE
    /\ output_format = "webp"
    /\ presses = Cardinality(Workers)
    /\ dir \in {d \in StaleDirs : DOMAIN d # {}}
    /\ Idle

ThreadStep(w) ==
    \/ clean_temp_files(w)
    \/ BatchCall(w)
    \/ CallStep(w)
    \/ BatchReturn(w)
    \/ Summary(w)

NextBatch ==
    \/ process_files
    \/ Tick
    \/ \E w \in Workers : ThreadStep(w)

SpecBatch == InitBatch /\ [][NextBatch]_vars

SpecClicks == InitClicks /\ [][NextBatch]_vars

\* A started thread keeps running: nothing in processing_thread waits for
\* another thread, and every external process is taken to end.
FairBatch == SpecBatch /\ \A w \in Workers : WF_vars(ThreadStep(w))

\* ------------------------------------------------ properties of one call
VideoCalls == {w \in Workers : frame[w].fn = "convert_video"}
Last(seq) == seq[Len(seq)]

\* C1 as stated, for the conversions whose encoder ran at least once: the
\* call returns success with the last output within the budget, or failure
\* after exactly 5 encode attempts.
C1_TwoEndings ==
    \A w \in VideoCalls :
        LET f == frame[w] IN
        (f.cv = "returned" /\ f.attempt >= 1) =>
            \/ f.ret /\ FitsBudget(f.file_size, f.is_icon)
            \/ ~f.ret /\ f.attempt = MAX_ATTEMPTS

\* C1 amended: a conversion ends in one of five ways.  Success: the last
\* encode exited 0 with an output within the budget, after 1 to 5 attempts.
\* Exhaustion: failure after exactly 5 encodes that all exited 0 over budget.
\* Encoder error: failure right after an encode that exits non-zero, after 1
\* to 5 attempts.  No encode at all: failure when ffprobe cannot be started
\* or the probed source is 0x0.  Output gone: failure when the output file
\* was removed before the call looked at it.  While the loop runs, every
\* output so far was over budget: the first fitting output ends the loop.
C1_Endings ==
    \A w \in VideoCalls :
        LET f == frame[w] IN
        /\ f.cv = "returned" =>
            \/ /\ f.ret /\ f.returncode = 0 /\ FitsBudget(f.file_size, f.is_icon)
               /\ f.attempt \in 1..MAX_ATTEMPTS
            \/ /\ ~f.ret /\ f.returncode = 0 /\ ~FitsBudget(f.file_size, f.is_icon)
               /\ f.attempt = MAX_ATTEMPTS
            \/ ~f.ret /\ f.returncode = 1 /\ f.attempt \in 1..MAX_ATTEMPTS
            \/ /\ ~f.ret /\ f.attempt = 0
               /\ ~f.input.ran \/ (~f.is_icon /\ Max(f.width, f.height) = 0)
            \/ ~f.ret /\ f.returncode = 0 /\ f.vanished /\ f.attempt \in 1..MAX_ATTEMPTS
        /\ f.cv = "encode" =>
            /\ f.attempt < MAX_ATTEMPTS
            /\ f.attempt >= 1 => ~FitsBudget(f.file_size, f.is_icon)
        /\ f.success => f.cv \in {"ret", "returned"}
        /\ Len(f.cmds) = f.attempt

\* A conversion that succeeded on its third attempt.
C1_Witness ==
    \E w \in VideoCalls :
        /\ frame[w].cv = "returned" /\ frame[w].ret /\ frame[w].attempt = 3

\* C2: the first attempt runs at 300 kbps (150 for an icon), each later
\* attempt at no more than 0.6 times the bitrate of the one before, and there
\* are never more than 5 attempts.
C2_Bitrates ==
    \A w \in VideoCalls :
        LET c == frame[w].cmds IN
        /\ Len(c) <= 5
        /\ Len(c) >= 1 => c[1].bitrate = (IF frame[w].is_icon THEN 150 ELSE 300)
        /\ \A k \in 2..Len(c) : 10 * c[k].bitrate <= 6 * c[k - 1].bitrate

\* Five attempts of a regular conversion: 300, 180, 108, 64, 38.
C2_Witness ==
    \E w \in VideoCalls :
        /\ ~frame[w].is_icon
        /\ Len(frame[w].cmds) = 5
        /\ Last(frame[w].cmds).bitrate = 38

\* C3: once an encode has exited non-zero the call is over: it has returned
\* False, no attempt follows, and the bitrate is still the one of the failed
\* attempt.
C3_EncoderErrorAborts ==
    \A w \in VideoCalls :
        LET f == frame[w] IN
        f.returncode = 1 =>
            /\ f.cv = "returned" /\ ~f.ret
            /\ Len(f.cmds) = f.attempt
            /\ f.bitrate = Last(f.cmds).bitrate

\* An encoder error on the second attempt.
C3_Witness ==
    \E w \in VideoCalls : frame[w].returncode = 1 /\ frame[w].attempt = 2

\* The probe of a call failed: ffprobe did not start, or its line does not
\* parse into two integers.
ProbeFailed(f) == ~f.input.ran \/ ~ParsesOk(f.input.out)

\* C4: after a failed probe the source dimensions are 1280x720 and the call
\* goes on to encode: it does not return before its first encode attempt.
C4_ProbeFallback ==
    \A w \in VideoCalls :
        LET f == frame[w] IN
        (ProbeFailed(f) /\ f.cv # "probe") =>
            /\ f.width = 1280 /\ f.height = 720
            /\ f.cv = "returned" => f.attempt >= 1

\* The rational floor(edge * 512 / longest), the value the claim names.
ExactEdge(edge, width, height) == (edge * 512) \div Max(width, height)

\* The call has computed its target dimensions.
Planned(f) ==
    \/ f.fn = "resize_image" /\ f.cv = "returned" /\ f.ret
    \/ f.fn = "convert_video" /\ f.cv \in {"encode", "ret"}

\* C7: a non-icon conversion of a source with width, height > 0 gets a target
\* whose longer edge is 512 and whose other edges are floor(edge * 512 /
\* longest), plus at most 1 for a video.
C7_ProportionalFit ==
    \A w \in Workers :
        LET f == frame[w]
            slack == IF f.fn = "convert_video" THEN 1 ELSE 0
        IN  (Planned(f) /\ ~f.is_icon /\ f.width > 0 /\ f.height > 0) =>
                /\ Max(f.new_width, f.new_height) = 512
                /\ f.new_width - ExactEdge(f.width, f.width, f.height) \in 0..slack
                /\ f.new_height - ExactEdge(f.height, f.width, f.height) \in 0..slack

\* C8: every scale filter handed to ffmpeg has an even width and an even
\* height, for regular conversions and for icons.
C8_EvenDimensions ==
    \A w \in VideoCalls :
        \A k \in 1..Len(frame[w].cmds) :
            /\ frame[w].cmds[k].scale_w % 2 = 0
            /\ frame[w].cmds[k].scale_h % 2 = 0

\* An encode of a 49x49 source: int(49 * (512 / 49)) is 511, and the scale
\* filter gets 512.
C8_Witness ==
    \E w \in VideoCalls :
        /\ ~frame[w].is_icon
        /\ frame[w].width = 49 /\ frame[w].height = 49
        /\ Len(frame[w].cmds) >= 1
        /\ frame[w].cmds[1].scale_w = 512

\* ------------------------------------------------ properties of a batch
\* The calls a batch owes, in submission order: every image, every video,
\* then each enabled icon that has a file.
Asset(fn, input, is_icon) == [fn |-> fn, input |-> input, is_icon |-> is_icon]

Expected ==
    [k \in 1..Len(image_files) |-> Asset("resize_image", image_files[k], FALSE)]
    \o [k \in 1..Len(video_files) |-> Asset("convert_video", video_files[k], FALSE)]
    \o (IF create_video_icon /\ icon_video_file # NoFile
        THEN <<Asset("convert_video", icon_video_file, TRUE)>> ELSE <<>>)
    \o (IF create_image_icon /\ icon_image_file # NoFile
        THEN <<Asset("resize_image", icon_image_file, TRUE)>> ELSE <<>>)

Handed(w) == [k \in 1..Len(calls[w]) |-> Asset(calls[w][k].fn, calls[w][k].input, calls[w][k].is_icon)]

\* The calls made so far are the first of the calls owed, each once and in
\* order, whatever the earlier ones returned; at the summary all were made
\* and all have returned.
C5_InOrder ==
    \A w \in Workers :
        /\ Len(calls[w]) <= Len(Expected)
        /\ Handed(w) = SubSeq(Expected, 1, Len(calls[w]))
        /\ Len(outcomes[w]) \in {Len(calls[w]), Len(calls[w]) - 1}
        /\ pc[w] \in {"summary", "done"} =>
              Len(calls[w]) = Len(Expected) /\ Len(outcomes[w]) = Len(Expected)

\* C5: in a batch run every queued image, every queued video and each
\* enabled icon is handed to its renderer or encoder exactly once, in
\* submission order, whether or not earlier assets failed, and a started
\* batch always passes its summary step and ends.
C5_BatchIndependence ==
    /\ []C5_InOrder
    /\ \A w \in Workers : (pc[w] = "clean") ~> (pc[w] = "done")

\* A finished batch of five assets whose second image and whose clip failed.
C5_Witness ==
    \E w \in Workers :
        /\ pc[w] = "done"
        /\ Len(outcomes[w]) = 5
        /\ outcomes[w][2] = "failed"
        /\ outcomes[w][3] = "exhausted"
        /\ outcomes[w][5] = "ok"

\* A conversion is under way in thread w.
Running(w) == frame[w].cv \notin {"none", "returned"}

\* C6: at most one batch worker is executing a conversion at any moment,
\* also when "Process Files" is pressed again while a batch runs.
C6_OneConversion == Cardinality({w \in Workers : Running(w)}) <= 1

Range(seq) == {seq[k] : k \in DOMAIN seq}

\* C9: a video still over its budget after all 5 attempts is returned as
\* failed and is never in processed_files, and the file its last attempt
\* wrote stays in the output directory for the rest of the batch.
C9_ExhaustedArtifact ==
    \A w \in Workers :
        /\ LET f == frame[w] IN
           (/\ f.fn = "convert_video" /\ f.cv = "returned" /\ f.returncode = 0
            /\ f.attempt = MAX_ATTEMPTS /\ ~FitsBudget(f.file_size, f.is_icon)) =>
                ~f.ret /\ Outcome(f) = "exhausted"
        /\ \A k \in 1..Len(outcomes[w]) :
              outcomes[w][k] = "exhausted" =>
                 /\ calls[w][k].path \notin Range(processed_files[w])
                 /\ calls[w][k].path \in DOMAIN dir
                 /\ dir[calls[w][k].path] = <<w, k>>

\* A finished batch whose clip used up its attempts, followed by an icon.
C9_Witness ==
    \E w \in Workers :
        /\ pc[w] = "done"
        /\ \E k \in 1..Len(outcomes[w]) : outcomes[w][k] = "exhausted" /\ k < Len(outcomes[w])

\* C10: a batch clears the output directory once, before its first call;
\* after that no entry from before the batch is left, and every artifact a
\* returned asset of the batch produced is still there as that asset wrote
\* it: nothing deletes or overwrites it.
C10_ClearedThenAdditive ==
    \A w \in Workers :
        /\ pc[w] = "clean" => calls[w] = <<>>
        /\ pc[w] \notin {"idle", "clean"} =>
              /\ \A n \in DOMAIN dir : dir[n][1] \in Workers
              /\ \A k \in 1..Len(outcomes[w]) :
                    outcomes[w][k] = "ok" =>
                       /\ calls[w][k].path \in DOMAIN dir
                       /\ dir[calls[w][k].path] = <<w, k>>

\* The largest edge a target may have: target_size.
MaxEdge(is_icon) == IF is_icon THEN ICON_SIZE ELSE MAX_IMAGE_SIZE

\* C11: for every source with width and height >= 1, the size resize_image
\* asks img.resize for, and the scale filter of every ffmpeg command of
\* convert_video, have both edges at least 1 and at most the maximum edge
\* (512 for regular assets, 100 for icons).
C11_TargetWithinLimits ==
    \A w \in Workers :
        LET f == frame[w] IN
        /\ (/\ f.fn = "resize_image" /\ f.cv = "returned" /\ f.input.ok
            /\ f.input.width >= 1 /\ f.input.height >= 1) =>
                /\ NewSize(f)[1] \in 1..MaxEdge(f.is_icon)
                /\ NewSize(f)[2] \in 1..MaxEdge(f.is_icon)
        /\ (f.fn = "convert_video" /\ f.width >= 1 /\ f.height >= 1) =>
                \A k \in 1..Len(f.cmds) :
                    /\ f.cmds[k].scale_w \in 1..MaxEdge(f.is_icon)
                    /\ f.cmds[k].scale_h \in 1..MaxEdge(f.is_icon)
====
